---------------------------- MODULE Spec2Model ----------------------------
(***************************************************************************)
(* A model of the two scrapers statchina_download.py ("old") and           *)
(* new_statchina_download.py ("new"): the JSON envelope normalizers, the    *)
(* candidate probing loop of main(), query_data's decoding of data nodes    *)
(* and the panel assembly.                                                   *)
(*                                                                         *)
(* Four specifications share the module:                                    *)
(*   Spec          the probing loop and the tree files of both main()s     *)
(*   SpecNormalize the three normalizers applied to one parsed JSON value   *)
(*   SpecQuery     query_data applied to one QueryData response             *)
(*   SpecPanel     the panel assembly at the end of the old main()          *)
(***************************************************************************)
EXTENDS Integers, Sequences, FiniteSets, TLC

VARIABLES
    \* ---- probing loop of main() ----
    script,     \* "old" (statchina_download.py) or "new" (new_statchina_download.py)
    pc,         \* position of main(): start, boot, zb, reg, savezb, savereg, find,
                \* done; fatal (the RuntimeError after the loops), crash (an
                \* exception the probing does not catch), ioerror (an uncaught
                \* error of mkdir or to_csv), keyerror (find_in_tree without a
                \* name column); idle
    ci,         \* index of the current cn candidate (outer loop)
    di,         \* index of the current db candidate (inner loop)
    tree_zb,    \* old: tree_zb, the rows of the last frame built, <<>> if none;
                \* new: df_zb of the pair being probed, <<>> if none
    tree_reg,   \* old: tree_reg; new: df_reg of the pair being probed
    zb_raw,     \* old: zb_raw, the normalized zb payload last fetched (the new
                \* script uses its payload within one step and keeps JNull here)
    chosen,     \* old: chosen, new: the pair of the SUCCESS lines; <<>> (None) or <<cn, db>>
    firstViable,\* history: <<>> or the first (cn, db) pair, as indices, whose two
                \* trees were fetched non-empty
    files,      \* the files this run has written to the output directory, as a
                \* set of [name, rows]; what an earlier run left there is not
                \* part of the state (to_csv overwrites a file of the same name)
    sent,       \* the request the last step issued: none, get (bootstrap GET) or
                \* post (getTree POST)
    bootFailed, \* history: cn candidates whose bootstrap was abandoned
    pairFailed, \* history: (cn, db) pairs tried and abandoned
    \* ---- normalizers ----
    nj,         \* the parsed JSON value handed to the normalizers
    nres,       \* results of normalize_tree_json, extract_tree, normalize_query_json
    \* ---- query_data ----
    qj,         \* the QueryData response (parsed JSON)
    qres,       \* what query_data returned or raised
    \* ---- panel assembly ----
    ppc,        \* position of the assembly: idle, start, fetch, saved, stop, crash
                \* (query_data raised), keyerror (tree_reg without a name
                \* column), ioerror (panel.to_csv raised)
    porder,     \* zb_list as an ordered sequence of indicator names
    pset,       \* whether the user has filled in the codes of zb_list
    pframes,    \* history: the frames query_data returned, in download order
    pregs,      \* tree_reg of the chosen combination (rows with an id and, where
                \* the node has one, a name)
    pidx,       \* number of indicators already merged
    panel       \* local panel: <<>> (None) or <<table>>

probeVars == <<script, pc, ci, di, tree_zb, tree_reg, zb_raw, chosen, firstViable,
               files, sent, bootFailed, pairFailed>>
normVars  == <<nj, nres>>
queryVars == <<qj, qres>>
panelVars == <<ppc, porder, pset, pframes, pregs, pidx, panel>>
vars == <<probeVars, normVars, queryVars, panelVars>>

-----------------------------------------------------------------------------
(* Parsed JSON values.  Every value is a record of one shape so that any    *)
(* two values can be compared: a list carries its items, a mapping its keys *)
(* in insertion order with the values beside them, a scalar its text.  A    *)
(* JSON number written without fraction or exponent is a JNum (r.json()     *)
(* makes it an int), any other number a JFloat, true and false a JBool.     *)

JList(items) == [type |-> "list", items |-> items, keys |-> <<>>, vals |-> <<>>, text |-> ""]
JDict(keys, vals) == [type |-> "dict", items |-> <<>>, keys |-> keys, vals |-> vals, text |-> ""]
JStr(s) == [type |-> "str", items |-> <<>>, keys |-> <<>>, vals |-> <<>>, text |-> s]
JNum(s) == [type |-> "num", items |-> <<>>, keys |-> <<>>, vals |-> <<>>, text |-> s]
JFloat(s) == [type |-> "float", items |-> <<>>, keys |-> <<>>, vals |-> <<>>, text |-> s]
JBool(s) == [type |-> "bool", items |-> <<>>, keys |-> <<>>, vals |-> <<>>, text |-> s]
JNull == [type |-> "null", items |-> <<>>, keys |-> <<>>, vals |-> <<>>, text |-> ""]

\* isinstance(j, list) / isinstance(j, dict)
IsList(j) == j.type = "list"
IsDict(j) == j.type = "dict"

\* k in j, for a mapping j
HasKey(j, k) == \E i \in 1..Len(j.keys) : j.keys[i] = k

\* j[k], for a mapping j that has k
GetKey(j, k) == j.vals[CHOOSE i \in 1..Len(j.keys) : j.keys[i] = k]

\* type(j) as Python prints it in the error messages
PyType(j) ==
    CASE j.type = "list" -> "<class 'list'>"
      [] j.type = "dict" -> "<class 'dict'>"
      [] j.type = "str"  -> "<class 'str'>"
      [] j.type = "num"  -> "<class 'int'>"
      [] j.type = "float" -> "<class 'float'>"
      [] j.type = "bool" -> "<class 'bool'>"
      [] OTHER           -> "<class 'NoneType'>"

\* What a call gives back: a value, or the exception it raised.
Returned(v) == [ok |-> TRUE, val |-> v, err |-> "", detail |-> <<>>]
Raised(kind, detail) == [ok |-> FALSE, val |-> JNull, err |-> kind, detail |-> detail]
Pending == Raised("pending", <<>>)

-----------------------------------------------------------------------------
(* The normalizers.                                                        *)

\* the fallback key names of normalize_tree_json, in the order of its loop
FallbackKeys == <<"data", "result", "datas">>

\* a plausible slip: the error lists the keys looked for, not the keys found
Mut_ScanFallback(j, ks, i) ==
    IF \E k \in i..Len(ks) : HasKey(j, ks[k])
    THEN Returned(GetKey(j, ks[CHOOSE k \in i..Len(ks) :
                                 HasKey(j, ks[k]) /\ \A h \in i..(k - 1) : ~HasKey(j, ks[h])]))
    ELSE Raised("Dict JSON but no returndata-like field. Keys=", ks)

\* the for-loop of normalize_tree_json from position i on: the first key of
\* the list that j contains decides
RECURSIVE ScanFallback(_, _, _)
ScanFallback(j, ks, i) ==
    IF i > Len(ks)
    THEN Raised("Dict JSON but no returndata-like field. Keys=", j.keys)
    ELSE IF HasKey(j, ks[i]) THEN Returned(GetKey(j, ks[i]))
    ELSE ScanFallback(j, ks, i + 1)

\* a plausible slip: the fallback keys are looked at before 'returndata'
Mut_normalize_tree_json(j) ==
    IF IsList(j) THEN Returned(j)
    ELSE IF IsDict(j) THEN
        IF \E i \in 1..Len(FallbackKeys) : HasKey(j, FallbackKeys[i])
        THEN ScanFallback(j, FallbackKeys, 1)
        ELSE IF HasKey(j, "returndata") THEN Returned(GetKey(j, "returndata"))
        ELSE Raised("Dict JSON but no returndata-like field. Keys=", j.keys)
    ELSE Raised("Unexpected JSON type: ", <<PyType(j)>>)

normalize_tree_json(j) ==
    IF IsList(j) THEN Returned(j)
    ELSE IF IsDict(j) THEN
        IF HasKey(j, "returndata") THEN Returned(GetKey(j, "returndata"))
        ELSE ScanFallback(j, FallbackKeys, 1)
    ELSE Raised("Unexpected JSON type: ", <<PyType(j)>>)

\* ",".join(keys): the keys with a "," between neighbours
RECURSIVE JoinComma(_)
JoinComma(ks) ==
    IF Len(ks) = 0 THEN <<>>
    ELSE IF Len(ks) = 1 THEN <<ks[1]>>
    ELSE <<ks[1], ",">> \o JoinComma(Tail(ks))

\* a plausible slip: 'data' is returned whatever its type
Mut_extract_tree(j) ==
    IF IsList(j) THEN Returned(j)
    ELSE IF IsDict(j) THEN
        IF HasKey(j, "returndata") THEN Returned(GetKey(j, "returndata"))
        ELSE IF HasKey(j, "data") THEN Returned(GetKey(j, "data"))
        ELSE Raised("Dict JSON without returndata. Keys=", JoinComma(j.keys))
    ELSE Raised("Unexpected JSON type: ", <<PyType(j)>>)

extract_tree(j) ==
    IF IsList(j) THEN Returned(j)
    ELSE IF IsDict(j) THEN
        IF HasKey(j, "returndata") THEN Returned(GetKey(j, "returndata"))
        ELSE IF HasKey(j, "data") /\ IsList(GetKey(j, "data"))
             THEN Returned(GetKey(j, "data"))
        ELSE Raised("Dict JSON without returndata. Keys=", JoinComma(j.keys))
    ELSE Raised("Unexpected JSON type: ", <<PyType(j)>>)

\* a plausible slip: the query path reuses the tree normalizer
Mut_normalize_query_json(j) == normalize_tree_json(j)

normalize_query_json(j) ==
    IF IsDict(j) /\ HasKey(j, "returndata") THEN Returned(GetKey(j, "returndata"))
    ELSE Raised("Unexpected QueryData JSON structure: ", <<PyType(j)>>)


-----------------------------------------------------------------------------
(* HTTP and pandas, as far as the scripts look at them.                    *)

\* one HTTP exchange: it timed out, or it came back with a status and a body
\* that is JSON (j) or not
TimedOut == [net |-> "timeout", status |-> 0, isjson |-> FALSE, j |-> JNull]
Http(status, isjson, j) == [net |-> "ok", status |-> status, isjson |-> isjson, j |-> j]

\* r.raise_for_status() raises: a 4xx or 5xx status
RaisesForStatus(r) == r.status >= 400 /\ r.status < 600

\* post_json of the old script: the POST itself may raise (timeout), then
\* raise_for_status, then r.json()
post_json(r) ==
    IF r.net = "timeout" THEN Raised("Timeout", <<>>)
    ELSE IF RaisesForStatus(r) THEN Raised("HTTPError", <<>>)
    ELSE IF ~r.isjson THEN Raised("JSON parse failed", <<>>)
    ELSE Returned(r.j)

\* get_tree of the old script: post_json, then normalize_tree_json
get_tree(r) ==
    LET j == post_json(r) IN IF j.ok THEN normalize_tree_json(j.val) ELSE j

\* post_json of the new script: the same steps, another message
post_json_new(r) ==
    IF r.net = "timeout" THEN Raised("Timeout", <<>>)
    ELSE IF RaisesForStatus(r) THEN Raised("HTTPError", <<>>)
    ELSE IF ~r.isjson THEN Raised("Not JSON. First 300 chars:", <<>>)
    ELSE Returned(r.j)

\* the two calls of the new script's main(): post_json, then extract_tree
get_tree_new(r) ==
    LET j == post_json_new(r) IN IF j.ok THEN extract_tree(j.val) ELSE j

\* pd.DataFrame(payload): a list of nodes gives one row per node, None and
\* the empty mapping give an empty frame, a string, a number or a mapping of
\* scalars raise ValueError (the mappings of this model hold scalars only)
DataFrame(p) ==
    IF p.type = "list" THEN [ok |-> TRUE, rows |-> p.items]
    ELSE IF p.type = "null" THEN [ok |-> TRUE, rows |-> <<>>]
    ELSE IF p.type = "dict" /\ Len(p.keys) = 0 THEN [ok |-> TRUE, rows |-> <<>>]
    ELSE [ok |-> FALSE, rows |-> <<>>]

\* df.empty
Empty(rows) == Len(rows) = 0

-----------------------------------------------------------------------------
(* The probing loop of main().                                             *)

Scripts == {"old", "new"}

cn_candidates(s) ==
    IF s = "old" THEN <<"E0102", "E0101", "E0103">>
    ELSE <<"E0102", "E0101", "E0103", "C01">>

db_candidates(s) ==
    IF s = "old" THEN <<"fsnd", "hgnd">>
    ELSE <<"fsnd", "hgnd", "csyd">>

CurCn == cn_candidates(script)[ci]
CurDb == db_candidates(script)[di]

\* what the server may answer to the bootstrap GET
BootResponses ==
    {TimedOut, Http(200, FALSE, JNull), Http(204, FALSE, JNull),
     Http(404, FALSE, JNull), Http(500, FALSE, JNull)}

\* a tree node the server returns for the request (cn, db, wdcode); the
\* fourth component tells whether the node carries a "name" field
TreeNode(cn, db, wd) == <<cn, db, wd, TRUE>>

\* the same node without a "name" field
NamelessNode(cn, db, wd) == <<cn, db, wd, FALSE>>

\* the JSON bodies the server may answer to a getTree POST
TreeBodies(cn, db, wd) ==
    LET n == TreeNode(cn, db, wd)
        u == NamelessNode(cn, db, wd)
    IN
    {JList(<<n>>),
     JList(<<u>>),
     JList(<<>>),
     JDict(<<"returncode", "returndata">>, <<JNum("200"), JList(<<n>>)>>),
     JDict(<<"returndata">>, <<JList(<<>>)>>),
     JDict(<<"returndata">>, <<JStr("error")>>),
     JDict(<<"returndata">>, <<JNull>>),
     JDict(<<"data">>, <<JList(<<n>>)>>),
     JDict(<<"result">>, <<JList(<<n>>)>>),
     JDict(<<"msg">>, <<JStr("blocked")>>),
     JStr("blocked")}

\* what the server may answer to a getTree POST
TreeResponses(cn, db, wd) ==
    {TimedOut, Http(404, FALSE, JNull), Http(500, FALSE, JNull), Http(200, FALSE, JNull)}
    \cup {Http(200, TRUE, j) : j \in TreeBodies(cn, db, wd)}

\* what a mkdir or to_csv call may do: do its work, or raise (OSError)
\* before anything is written
WriteOutcomes == {"written", "raised"}

ProbeIdle ==
    /\ script = "none" /\ pc = "idle" /\ ci = 0 /\ di = 0
    /\ tree_zb = <<>> /\ tree_reg = <<>> /\ zb_raw = JNull /\ chosen = <<>>
    /\ firstViable = <<>> /\ files = {} /\ sent = "none"
    /\ bootFailed = {} /\ pairFailed = {}

ProbeInit ==
    /\ script \in Scripts /\ pc = "start" /\ ci = 1 /\ di = 1
    /\ tree_zb = <<>> /\ tree_reg = <<>> /\ zb_raw = JNull /\ chosen = <<>>
    /\ firstViable = <<>> /\ files = {} /\ sent = "none"
    /\ bootFailed = {} /\ pairFailed = {}

\* the first statement of main(): the output directory is made unless it is
\* there; mkdir raises (FileExistsError when the path is a regular file, or
\* another OSError) outside any try, before the first request
MakeOutDir ==
    /\ pc = "start"
    /\ \E w \in WriteOutcomes : pc' = IF w = "written" THEN "boot" ELSE "ioerror"
    /\ sent' = "none"
    /\ UNCHANGED <<normVars, queryVars, panelVars, script, ci, di, tree_zb, tree_reg, zb_raw, chosen, firstViable,
                   files, bootFailed, pairFailed>>

\* the outer for-loop moves on: the next cn, or the RuntimeError after it
AdvanceCn ==
    IF ci < Len(cn_candidates(script))
    THEN ci' = ci + 1 /\ di' = 1 /\ pc' = "boot"
    ELSE ci' = ci /\ di' = di /\ pc' = "fatal"

\* the except clause of the inner loop: the pair is given up, the inner loop
\* goes on with the next db, and after the last db the outer loop moves on
AbandonPair ==
    /\ pairFailed' = pairFailed \cup {<<ci, di>>}
    /\ IF di < Len(db_candidates(script))
       THEN ci' = ci /\ di' = di + 1 /\ pc' = "zb"
       ELSE AdvanceCn

\* old: chosen is set, break, "if chosen: break", and main() goes on to the
\* to_csv calls after the loops
LeaveLoops == ci' = ci /\ di' = di /\ pc' = "savezb"

\* boot_session(sess, cn) inside try/except Exception: a timeout or a 4xx/5xx
\* status abandons the cn
BootOld ==
    /\ script = "old" /\ pc = "boot"
    /\ sent' = "get"
    /\ \E r \in BootResponses :
        IF r.net = "timeout" \/ RaisesForStatus(r)
        THEN bootFailed' = bootFailed \cup {ci} /\ AdvanceCn
        ELSE bootFailed' = bootFailed /\ ci' = ci /\ di' = 1 /\ pc' = "zb"
    /\ UNCHANGED <<normVars, queryVars, panelVars, script, tree_zb, tree_reg, zb_raw, chosen, firstViable, files, pairFailed>>

\* sess.get(...) outside any try: a timeout ends the run; a status other
\* than 200 skips the cn
BootNew ==
    /\ script = "new" /\ pc = "boot"
    /\ sent' = "get"
    /\ \E r \in BootResponses :
        IF r.net = "timeout"
        THEN bootFailed' = bootFailed \cup {ci} /\ ci' = ci /\ di' = di /\ pc' = "crash"
        ELSE IF r.status # 200
        THEN bootFailed' = bootFailed \cup {ci} /\ AdvanceCn
        ELSE bootFailed' = bootFailed /\ ci' = ci /\ di' = 1 /\ pc' = "zb"
    /\ UNCHANGED <<normVars, queryVars, panelVars, script, tree_zb, tree_reg, zb_raw, chosen, firstViable, files, pairFailed>>

\* old: zb_raw = get_tree(..., wdcode="zb")
FetchZbOld ==
    /\ script = "old" /\ pc = "zb"
    /\ sent' = "post"
    /\ \E r \in TreeResponses(CurCn, CurDb, "zb") :
        LET t == get_tree(r) IN
        IF t.ok
        THEN zb_raw' = t.val /\ ci' = ci /\ di' = di /\ pc' = "reg"
             /\ pairFailed' = pairFailed
        ELSE zb_raw' = zb_raw /\ AbandonPair
    /\ UNCHANGED <<normVars, queryVars, panelVars, script, tree_zb, tree_reg, chosen, firstViable, files, bootFailed>>

\* old: reg_raw = get_tree(..., wdcode="reg"), the two DataFrames, the
\* emptiness test, chosen = (cn, db), the breaks
FetchRegOld ==
    /\ script = "old" /\ pc = "reg"
    /\ sent' = "post"
    /\ \E r \in TreeResponses(CurCn, CurDb, "reg") :
        LET t == get_tree(r)
            fz == DataFrame(zb_raw)
            fr == DataFrame(t.val)
        IN
        IF ~t.ok THEN
            /\ tree_zb' = tree_zb /\ tree_reg' = tree_reg
            /\ chosen' = chosen /\ firstViable' = firstViable
            /\ AbandonPair
        ELSE IF ~fz.ok THEN
            /\ tree_zb' = tree_zb /\ tree_reg' = tree_reg
            /\ chosen' = chosen /\ firstViable' = firstViable
            /\ AbandonPair
        ELSE IF ~fr.ok THEN
            /\ tree_zb' = fz.rows /\ tree_reg' = tree_reg
            /\ chosen' = chosen /\ firstViable' = firstViable
            /\ AbandonPair
        ELSE IF Empty(fz.rows) \/ Empty(fr.rows) THEN
            /\ tree_zb' = fz.rows /\ tree_reg' = fr.rows
            /\ chosen' = chosen /\ firstViable' = firstViable
            /\ AbandonPair
        ELSE
            /\ tree_zb' = fz.rows /\ tree_reg' = fr.rows
            /\ chosen' = <<CurCn, CurDb>>
            /\ firstViable' = (IF firstViable = <<>> THEN <<ci, di>> ELSE firstViable)
            /\ pairFailed' = pairFailed
            /\ LeaveLoops
    /\ UNCHANGED <<normVars, queryVars, panelVars, script, zb_raw, files, bootFailed>>

\* the except clause of the new script's inner loop.  The frames df_zb and
\* df_reg of the pair given up are never read again (each is assigned anew
\* before its next use), so they are not kept.
AbandonPairNew ==
    /\ AbandonPair
    /\ tree_zb' = <<>> /\ tree_reg' = <<>>

\* new: j_zb = post_json(...), tree_zb = extract_tree(j_zb), df_zb, emptiness
FetchZbNew ==
    /\ script = "new" /\ pc = "zb"
    /\ sent' = "post"
    /\ \E r \in TreeResponses(CurCn, CurDb, "zb") :
        LET t == get_tree_new(r)
            fz == DataFrame(t.val)
        IN
        IF ~t.ok \/ ~fz.ok \/ Empty(fz.rows)
        THEN AbandonPairNew
        ELSE /\ tree_zb' = fz.rows /\ tree_reg' = tree_reg
             /\ ci' = ci /\ di' = di /\ pc' = "reg" /\ pairFailed' = pairFailed
    /\ UNCHANGED <<normVars, queryVars, panelVars, script, zb_raw, chosen, firstViable, files, bootFailed>>

\* new: j_reg, tree_reg, df_reg, emptiness; with both trees non-empty the
\* try block goes on to its to_csv calls
FetchRegNew ==
    /\ script = "new" /\ pc = "reg"
    /\ sent' = "post"
    /\ \E r \in TreeResponses(CurCn, CurDb, "reg") :
        LET t == get_tree_new(r)
            fr == DataFrame(t.val)
        IN
        IF ~t.ok \/ ~fr.ok \/ Empty(fr.rows)
        THEN firstViable' = firstViable /\ AbandonPairNew
        ELSE /\ tree_reg' = fr.rows /\ tree_zb' = tree_zb
             /\ firstViable' = (IF firstViable = <<>> THEN <<ci, di>> ELSE firstViable)
             /\ ci' = ci /\ di' = di /\ pc' = "savezb" /\ pairFailed' = pairFailed
    /\ UNCHANGED <<normVars, queryVars, panelVars, script, zb_raw, chosen, files, bootFailed>>

\* tree_<db>_<wd>.csv with the frame written to it
TreeFile(db, wd, rows) == [name |-> <<"tree", db, wd>>, rows |-> rows]

\* to_csv overwrites a file of the same name
WriteAll(dir, new) ==
    {f \in dir : \A g \in new : g.name # f.name} \cup new

\* old: tree_zb.to_csv(tree_zb_path) after the loops, outside any try: an
\* error of the write ends the run
SaveZbOld ==
    /\ script = "old" /\ pc = "savezb"
    /\ \E w \in WriteOutcomes :
        IF w = "written"
        THEN files' = WriteAll(files, {TreeFile(chosen[2], "zb", tree_zb)}) /\ pc' = "savereg"
        ELSE files' = files /\ pc' = "ioerror"
    /\ sent' = "none"
    /\ UNCHANGED <<normVars, queryVars, panelVars, script, ci, di, tree_zb, tree_reg, zb_raw, chosen, firstViable,
                   bootFailed, pairFailed>>

\* old: tree_reg.to_csv(tree_reg_path)
SaveRegOld ==
    /\ script = "old" /\ pc = "savereg"
    /\ \E w \in WriteOutcomes :
        IF w = "written"
        THEN files' = WriteAll(files, {TreeFile(chosen[2], "reg", tree_reg)}) /\ pc' = "find"
        ELSE files' = files /\ pc' = "ioerror"
    /\ sent' = "none"
    /\ UNCHANGED <<normVars, queryVars, panelVars, script, ci, di, tree_zb, tree_reg, zb_raw, chosen, firstViable,
                   bootFailed, pairFailed>>

\* the frame has a "name" column: some node it was built from has the field
HasNameColumn(rows) == \E i \in 1..Len(rows) : rows[i][4]

\* old: the find_in_tree calls on tree_zb, which raise KeyError when the
\* frame has no "name" column, then the return at "STOP: zb_list not set yet"
FindInTreeOld ==
    /\ script = "old" /\ pc = "find"
    /\ pc' = IF HasNameColumn(tree_zb) THEN "done" ELSE "keyerror"
    /\ sent' = "none"
    /\ UNCHANGED <<normVars, queryVars, panelVars, script, ci, di, tree_zb, tree_reg, zb_raw, chosen, firstViable,
                   files, bootFailed, pairFailed>>

\* new: df_zb.to_csv(...) inside the try of the inner loop: an error of the
\* write is caught by "except Exception" and the loop goes on with the next db
SaveZbNew ==
    /\ script = "new" /\ pc = "savezb"
    /\ sent' = "none"
    /\ \E w \in WriteOutcomes :
        IF w = "written"
        THEN /\ files' = WriteAll(files, {TreeFile(CurDb, "zb", tree_zb)})
             /\ tree_zb' = tree_zb /\ tree_reg' = tree_reg
             /\ ci' = ci /\ di' = di /\ pc' = "savereg" /\ pairFailed' = pairFailed
        ELSE files' = files /\ AbandonPairNew
    /\ UNCHANGED <<normVars, queryVars, panelVars, script, zb_raw, chosen, firstViable, bootFailed>>

\* new: df_reg.to_csv(...), the SUCCESS lines and the return; an error of the
\* write is caught like any other and the zb file stays where it is
SaveRegNew ==
    /\ script = "new" /\ pc = "savereg"
    /\ sent' = "none"
    /\ \E w \in WriteOutcomes :
        IF w = "written"
        THEN /\ files' = WriteAll(files, {TreeFile(CurDb, "reg", tree_reg)})
             /\ chosen' = <<CurCn, CurDb>>
             /\ tree_zb' = tree_zb /\ tree_reg' = tree_reg
             /\ ci' = ci /\ di' = di /\ pc' = "done" /\ pairFailed' = pairFailed
        ELSE files' = files /\ chosen' = chosen /\ AbandonPairNew
    /\ UNCHANGED <<normVars, queryVars, panelVars, script, zb_raw, firstViable, bootFailed>>

ProbeNext ==
    \/ MakeOutDir
    \/ BootOld
    \/ BootNew
    \/ FetchZbOld
    \/ FetchRegOld
    \/ FetchZbNew
    \/ FetchRegNew
    \/ SaveZbOld
    \/ SaveRegOld
    \/ FindInTreeOld
    \/ SaveZbNew
    \/ SaveRegNew

-----------------------------------------------------------------------------
(* The normalizers applied to one parsed JSON value.                       *)

\* the largest number of keys of a mapping handed to the normalizers
MaxKeys == 2

KeyNames == {"returndata", "data", "result", "datas", "returncode", "msg"}

\* the values found under the keys of a mapping
Payloads ==
    {JList(<<>>),
     JList(<<TreeNode("E0102", "fsnd", "zb")>>),
     JList(<<TreeNode("E0102", "fsnd", "zb"), TreeNode("E0102", "fsnd", "reg")>>),
     JNull,
     JStr("error"),
     JDict(<<"code">>, <<JNum("200")>>)}

\* the key lists of length n without a repeated key
KeyLists(n) ==
    {ks \in [1..n -> KeyNames] : \A a, b \in 1..n : a # b => ks[a] # ks[b]}

\* the values handed to the normalizers: lists, scalars, and the mappings
\* of at most maxk keys
NormInputs(maxk) ==
    {JList(<<>>), JList(<<TreeNode("E0102", "fsnd", "zb")>>),
     JStr("blocked"), JNum("0"), JFloat("1.5"), JBool("true"), JNull}
    \cup UNION {{JDict(ks, vs) : ks \in KeyLists(n), vs \in [1..n -> Payloads]} : n \in 0..maxk}

NormIdle == nj = JNull /\ nres = [tree |-> Pending, ext |-> Pending, qry |-> Pending]

NormInit == nj \in NormInputs(MaxKeys) /\ nres = [tree |-> Pending, ext |-> Pending, qry |-> Pending]

CallNormalizeTree ==
    /\ nres.tree = Pending
    /\ nres' = [nres EXCEPT !.tree = normalize_tree_json(nj)]
    /\ UNCHANGED <<nj, probeVars, queryVars, panelVars>>

CallExtractTree ==
    /\ nres.ext = Pending
    /\ nres' = [nres EXCEPT !.ext = extract_tree(nj)]
    /\ UNCHANGED <<nj, probeVars, queryVars, panelVars>>

CallNormalizeQuery ==
    /\ nres.qry = Pending
    /\ nres' = [nres EXCEPT !.qry = normalize_query_json(nj)]
    /\ UNCHANGED <<nj, probeVars, queryVars, panelVars>>

NormNext == CallNormalizeTree \/ CallExtractTree \/ CallNormalizeQuery

-----------------------------------------------------------------------------
(* query_data: decoding the data nodes of a QueryData response.  Strings   *)
(* that the code takes apart are sequences of one-character strings.       *)

Digits == {"0", "1", "2", "3", "4", "5", "6", "7", "8", "9"}

DigitVal(c) ==
    CASE c = "0" -> 0 [] c = "1" -> 1 [] c = "2" -> 2 [] c = "3" -> 3 [] c = "4" -> 4
      [] c = "5" -> 5 [] c = "6" -> 6 [] c = "7" -> 7 [] c = "8" -> 8 [] c = "9" -> 9

\* the literal lit stands in w at position i
MatchAt(w, i, lit) ==
    /\ i + Len(lit) - 1 <= Len(w)
    /\ \A k \in 1..Len(lit) : w[i + k - 1] = lit[k]

\* the longest run of characters other than "_" that starts at position i
RECURSIVE RunNoUnderscore(_, _)
RunNoUnderscore(w, i) ==
    IF i > Len(w) \/ w[i] = "_" THEN <<>>
    ELSE <<w[i]>> \o RunNoUnderscore(w, i + 1)

\* re.search(lit + r"([^_]+)", w): None (<<>>) or the group of the leftmost
\* match (<<group>>)
SearchCode(w, lit) ==
    LET hits == {i \in 1..Len(w) : MatchAt(w, i, lit)
                                    /\ i + Len(lit) <= Len(w)
                                    /\ w[i + Len(lit)] # "_"}
    IN IF hits = {} THEN <<>>
       ELSE LET i == CHOOSE h \in hits : \A g \in hits : h <= g
            IN <<RunNoUnderscore(w, i + Len(lit))>>

\* re.search(r"sj\.(\d{4})", w): None or the four digits of the leftmost match
SearchYear(w) ==
    LET lit == <<"s", "j", ".">>
        hits == {i \in 1..Len(w) : MatchAt(w, i, lit)
                                    /\ i + 6 <= Len(w)
                                    /\ \A k \in 3..6 : w[i + k] \in Digits}
    IN IF hits = {} THEN <<>>
       ELSE LET i == CHOOSE h \in hits : \A g \in hits : h <= g
            IN <<SubSeq(w, i + 3, i + 6)>>

\* int(s) for a string of digits
RECURSIVE ParseInt(_)
ParseInt(s) ==
    IF Len(s) = 0 THEN 0
    ELSE 10 * ParseInt(SubSeq(s, 1, Len(s) - 1)) + DigitVal(s[Len(s)])

\* numbers are kept in hundredths: 123.45 is 12345
AllDigits(s) == \A k \in 1..Len(s) : s[k] \in Digits

\* float(s) for a string s: <<>> for ValueError, else <<hundredths>>.  The
\* strings of this model are written with digits, ".", "-" and letters other
\* than e, i, n, f, and carry at most two decimals.
ParseFloat(s) ==
    LET neg  == Len(s) > 0 /\ s[1] = "-"
        body == IF neg THEN Tail(s) ELSE s
        dots == {k \in 1..Len(body) : body[k] = "."}
        ip   == IF dots = {} THEN body
                ELSE SubSeq(body, 1, (CHOOSE k \in dots : TRUE) - 1)
        fp   == IF dots = {} THEN <<>>
                ELSE SubSeq(body, (CHOOSE k \in dots : TRUE) + 1, Len(body))
        mag  == 100 * ParseInt(ip)
                + (IF Len(fp) = 0 THEN 0
                   ELSE IF Len(fp) = 1 THEN 10 * ParseInt(fp)
                   ELSE ParseInt(fp))
    IN IF /\ Cardinality(dots) <= 1
          /\ AllDigits(ip) /\ AllDigits(fp)
          /\ Len(ip) + Len(fp) > 0
          /\ Len(fp) <= 2
       THEN <<IF neg THEN 0 - mag ELSE mag>>
       ELSE <<>>

\* the scalars found under a data node's data.data
VNull == [t |-> "null", s |-> <<>>, n |-> 0]
VStr(s) == [t |-> "str", s |-> s, n |-> 0]
VNum(n) == [t |-> "num", s |-> <<>>, n |-> n]

\* a data node: 'wds' and 'data' may be absent (<<>>), and so may the 'data'
\* key of the inner mapping
DataNode(wds, data) == [wds |-> wds, data |-> data]
DataObj(val) == [data |-> val]

\* val not in (None, "")
HasValue(val) == ~(val.t = "null" \/ (val.t = "str" /\ Len(val.s) = 0))

\* a plausible slip: "float(val) if val else None" also drops a zero
Mut_ValueOf(val) ==
    IF ~HasValue(val) \/ (val.t = "num" /\ val.n = 0) THEN [ok |-> TRUE, v |-> <<>>]
    ELSE IF val.t = "num" THEN [ok |-> TRUE, v |-> <<val.n>>]
    ELSE IF ParseFloat(val.s) = <<>> THEN [ok |-> FALSE, v |-> <<>>]
    ELSE [ok |-> TRUE, v |-> ParseFloat(val.s)]

\* float(val) if val not in (None, "") else None; not ok: float raised
ValueOf(val) ==
    IF ~HasValue(val) THEN [ok |-> TRUE, v |-> <<>>]
    ELSE IF val.t = "num" THEN [ok |-> TRUE, v |-> <<val.n>>]
    ELSE IF ParseFloat(val.s) = <<>> THEN [ok |-> FALSE, v |-> <<>>]
    ELSE [ok |-> TRUE, v |-> ParseFloat(val.s)]

\* the body of the for-loop: the row appended for one node
RowOf(node) ==
    LET wds      == IF node.wds = <<>> THEN <<>> ELSE node.wds[1]
        data_obj == IF node.data = <<>> THEN DataObj(<<>>) ELSE node.data[1]
        val      == IF data_obj.data = <<>> THEN VNull ELSE data_obj.data[1]
        m_zb     == SearchCode(wds, <<"z", "b", ".">>)
        m_reg    == SearchCode(wds, <<"r", "e", "g", ".">>)
        m_sj     == SearchYear(wds)
        value    == ValueOf(val)
    IN [ok    |-> value.ok,
        reg   |-> m_reg,
        year  |-> IF m_sj = <<>> THEN <<>> ELSE <<ParseInt(m_sj[1])>>,
        value |-> value.v,
        zb    |-> m_zb]

\* the rows list after the loop
RECURSIVE RowsOf(_)
RowsOf(nodes) ==
    IF Len(nodes) = 0 THEN <<>> ELSE <<RowOf(Head(nodes))>> \o RowsOf(Tail(nodes))

\* df.dropna(subset=["reg", "year"])
RECURSIVE DropNa(_)
DropNa(rows) ==
    IF Len(rows) = 0 THEN <<>>
    ELSE IF Head(rows).reg = <<>> \/ Head(rows).year = <<>> THEN DropNa(Tail(rows))
    ELSE <<[reg |-> Head(rows).reg[1], year |-> Head(rows).year[1],
            value |-> Head(rows).value, zb |-> Head(rows).zb]>> \o DropNa(Tail(rows))

QReturned(rows) == [ok |-> TRUE, rows |-> rows, err |-> ""]
QRaised(kind) == [ok |-> FALSE, rows |-> <<>>, err |-> kind]
QPending == QRaised("pending")

\* query_data from the parsed response j on
query_data(j) ==
    LET rd == normalize_query_json(j) IN
    IF ~rd.ok THEN QRaised(rd.err)
    ELSE IF ~IsDict(rd.val) THEN QRaised("AttributeError: no attribute 'get'")
    ELSE IF ~HasKey(rd.val, "datanodes") \/ GetKey(rd.val, "datanodes").type = "null"
         THEN QRaised("No datanodes. Raw begins:")
    ELSE LET nodes == GetKey(rd.val, "datanodes") IN
         IF nodes.type \in {"num", "float", "bool"} THEN QRaised("TypeError: object is not iterable")
         ELSE IF (nodes.type = "str" /\ nodes.text # "")
                 \/ (nodes.type = "dict" /\ Len(nodes.keys) > 0)
         THEN QRaised("AttributeError: no attribute 'get'")
         ELSE LET rows == RowsOf(nodes.items) IN
              IF \E i \in 1..Len(rows) : ~rows[i].ok
              THEN QRaised("ValueError: could not convert string to float")
              ELSE IF Len(rows) = 0
              THEN QRaised("KeyError: ['reg', 'year']")
              ELSE QReturned(DropNa(rows))

\* the wds strings of the data nodes
\* "zb.A0101_reg.110000_sj.2019"
W_full ==
    <<"z", "b", ".", "A", "0", "1", "0", "1", "_", "r", "e", "g", ".", "1", "1", "0", "0", "0", "0", "_", "s", "j", ".", "2", "0", "1", "9">>
\* "zb.A0101_reg.120000_sj.2020"
W_full2 ==
    <<"z", "b", ".", "A", "0", "1", "0", "1", "_", "r", "e", "g", ".", "1", "2", "0", "0", "0", "0", "_", "s", "j", ".", "2", "0", "2", "0">>
\* "zb.A0101_reg.110000"
W_noyear ==
    <<"z", "b", ".", "A", "0", "1", "0", "1", "_", "r", "e", "g", ".", "1", "1", "0", "0", "0", "0">>
\* "zb.A0101_sj.2019"
W_noreg ==
    <<"z", "b", ".", "A", "0", "1", "0", "1", "_", "s", "j", ".", "2", "0", "1", "9">>
\* "reg.110000_sj.2019"
W_nozb ==
    <<"r", "e", "g", ".", "1", "1", "0", "0", "0", "0", "_", "s", "j", ".", "2", "0", "1", "9">>
\* "zb.A0101_reg._sj.2019"
W_emptyreg ==
    <<"z", "b", ".", "A", "0", "1", "0", "1", "_", "r", "e", "g", ".", "_", "s", "j", ".", "2", "0", "1", "9">>
\* "zb.A0101_reg.110000_sj.201"
W_shortyear ==
    <<"z", "b", ".", "A", "0", "1", "0", "1", "_", "r", "e", "g", ".", "1", "1", "0", "0", "0", "0", "_", "s", "j", ".", "2", "0", "1">>
\* ""
W_empty ==
    <<>>
\* "sj.2021_reg.13"
W_swapped ==
    <<"s", "j", ".", "2", "0", "2", "1", "_", "r", "e", "g", ".", "1", "3">>
\* "reg._reg.13_sj.20201x"
W_retry ==
    <<"r", "e", "g", ".", "_", "r", "e", "g", ".", "1", "3", "_", "s", "j", ".", "2", "0", "2", "0", "1", "x">>

Wds == {W_full, W_full2, W_noyear, W_noreg, W_nozb, W_emptyreg, W_shortyear,
        W_empty, W_swapped, W_retry}

\* the strings "0", "123.45", "-1.5", "abc"
S_zero == <<"0">>
S_123_45 == <<"1", "2", "3", ".", "4", "5">>
S_neg == <<"-", "1", ".", "5">>
S_abc == <<"a", "b", "c">>

\* the values a data node may carry: the 'data' mapping absent, its 'data'
\* key absent, null, "", and numbers as JSON numbers or as strings
NodeData ==
    {<<>>, <<DataObj(<<>>)>>, <<DataObj(<<VNull>>)>>, <<DataObj(<<VStr(<<>>)>>)>>,
     <<DataObj(<<VStr(S_zero)>>)>>, <<DataObj(<<VStr(S_123_45)>>)>>,
     <<DataObj(<<VStr(S_neg)>>)>>, <<DataObj(<<VNum(0)>>)>>,
     <<DataObj(<<VNum(12345)>>)>>, <<DataObj(<<VStr(S_abc)>>)>>}

\* the data nodes the server may send: every wds with the value "123.45",
\* the full wds with every value, an undecodable wds without a value, and a
\* node without 'wds'
DataNodes ==
    {DataNode(<<w>>, <<DataObj(<<VStr(S_123_45)>>)>>) : w \in Wds}
    \cup {DataNode(<<W_full>>, d) : d \in NodeData}
    \cup {DataNode(<<W_noyear>>, <<DataObj(<<VNull>>)>>),
          DataNode(<<>>, <<DataObj(<<VNum(12345)>>)>>)}

\* the longest list of data nodes in a response
MaxNodes == 2

\* the lists of at most maxn data nodes
NodeLists(maxn) == UNION {[1..n -> DataNodes] : n \in 0..maxn}

\* the usual envelope of a QueryData response around a list of data nodes
QueryEnvelope(nodes) ==
    JDict(<<"returncode", "returndata">>,
          <<JNum("200"), JDict(<<"datanodes", "wdnodes">>, <<JList(nodes), JList(<<>>)>>)>>)

\* the QueryData responses: the usual envelope, and the malformed ones
QueryInputs(maxn) ==
    {QueryEnvelope(nodes) : nodes \in NodeLists(maxn)}
    \cup {JList(<<>>),
          JDict(<<"data">>, <<JDict(<<"datanodes">>, <<JList(<<>>)>>)>>),
          JDict(<<"returndata">>, <<JList(<<>>)>>),
          JDict(<<"returndata">>, <<JDict(<<"wdnodes">>, <<JList(<<>>)>>)>>),
          JDict(<<"returndata">>, <<JDict(<<"datanodes">>, <<JNull>>)>>),
          JDict(<<"returndata">>, <<JDict(<<"datanodes">>, <<JStr("error")>>)>>)}

QueryInit == qj \in QueryInputs(MaxNodes) /\ qres = QPending

CallQueryData ==
    /\ qres = QPending
    /\ qres' = query_data(qj)
    /\ UNCHANGED <<qj, probeVars, normVars, panelVars>>

QueryNext == CallQueryData

QueryIdle == qj = JNull /\ qres = QPending

-----------------------------------------------------------------------------
(* The panel assembly at the end of the old main().                        *)

\* the keys of zb_list in the order of the source
zb_list_names ==
    <<"gpb_rev_total", "gpb_tax_rev", "gpb_nontax_rev", "govfund_rev", "land_convey_rev">>

\* the number of indicators of zb_list that are downloaded
NumInd == 3

Indicators == {zb_list_names[i] : i \in 1..NumInd}

\* the orders in which zb_list may name the indicators
Orders ==
    {o \in [1..NumInd -> Indicators] : \A a, b \in 1..NumInd : a # b => o[a] # o[b]}

\* the wds of one data node
WdsOf(zb, reg, year) ==
    <<"z", "b", ".">> \o zb \o <<"_", "r", "e", "g", ".">> \o reg
        \o <<"_", "s", "j", ".">> \o year

Y2020 == <<"2", "0", "2", "0">>
Y2021 == <<"2", "0", "2", "1">>
R11 == <<"1", "1">>
R12 == <<"1", "2">>
R13 == <<"1", "3">>
ZbA == <<"A", "0", "1">>

PanelNode(reg, year, val) == DataNode(<<WdsOf(ZbA, reg, year)>>, <<DataObj(<<val>>)>>)

\* the QueryData responses an indicator may get: regions 11 and 12; regions
\* 11 and 13 with a missing value; an unsorted list with a repeated key; only
\* an undecodable node; no node at all
PanelResponses ==
    {QueryEnvelope(<<PanelNode(R11, Y2020, VStr(<<"1", ".", "5">>)),
                     PanelNode(R12, Y2020, VNum(0))>>),
     QueryEnvelope(<<PanelNode(R11, Y2020, VStr(<<"2">>)),
                     PanelNode(R13, Y2020, VNull)>>),
     QueryEnvelope(<<PanelNode(R12, Y2021, VStr(<<"3">>)),
                     PanelNode(R11, Y2020, VStr(<<"4">>)),
                     PanelNode(R11, Y2020, VStr(<<"5">>))>>),
     QueryEnvelope(<<DataNode(<<W_noyear>>, <<DataObj(<<VNum(12345)>>)>>)>>),
     QueryEnvelope(<<>>)}

\* tree_reg of the chosen combination: rows with an id and a name, the name
\* being <<>> for a node that has none (the probing accepts such a tree)
RegTrees ==
    {<<[id |-> R11, name |-> <<"Beijing">>], [id |-> R12, name |-> <<"Tianjin">>]>>,
     <<[id |-> R11, name |-> <<"Beijing">>], [id |-> R11, name |-> <<"Beijing Municipality">>],
       [id |-> R13, name |-> <<"Hebei">>]>>,
     <<[id |-> R11, name |-> <<"Beijing">>], [id |-> R12, name |-> <<>>]>>,
     <<[id |-> R11, name |-> <<>>], [id |-> R12, name |-> <<>>]>>}

\* tree_reg has a "name" column: some node it was built from has the field
RegHasNames(regs) == \E i \in 1..Len(regs) : Len(regs[i].name) > 0

\* a < b for two strings of digits, as Python compares strings
RECURSIVE StrLess(_, _)
StrLess(a, b) ==
    IF Len(b) = 0 THEN FALSE
    ELSE IF Len(a) = 0 THEN TRUE
    ELSE IF a[1] # b[1] THEN DigitVal(a[1]) < DigitVal(b[1])
    ELSE StrLess(Tail(a), Tail(b))

\* the join key of a row, and the order merge sorts the keys in
KeyOf(row) == <<row.reg, row.year>>
KeyLess(k, l) == StrLess(k[1], l[1]) \/ (k[1] = l[1] /\ k[2] < l[2])

RECURSIVE SortKeys(_)
SortKeys(ks) ==
    IF ks = {} THEN <<>>
    ELSE LET m == CHOOSE k \in ks : \A l \in ks : l = k \/ KeyLess(k, l)
         IN <<m>> \o SortKeys(ks \ {m})

KeysOf(rows) == {KeyOf(rows[i]) : i \in 1..Len(rows)}

\* the rows of a frame with the given key, in the frame's order
RECURSIVE WithKey(_, _)
WithKey(rows, k) ==
    IF Len(rows) = 0 THEN <<>>
    ELSE IF KeyOf(Head(rows)) = k THEN <<Head(rows)>> \o WithKey(Tail(rows), k)
    ELSE WithKey(Tail(rows), k)

\* df.rename(columns={"value": name}).drop(columns=["zb"])
RECURSIVE Renamed(_, _)
Renamed(rows, name) ==
    IF Len(rows) = 0 THEN <<>>
    ELSE <<[reg |-> Head(rows).reg, year |-> Head(rows).year,
            vals |-> [c \in {name} |-> Head(rows).value], prov |-> <<>>]>>
         \o Renamed(Tail(rows), name)

\* a row of the merged frame: the columns of l and of r, null for the
\* columns of a side that has no row (<<>>)
Joined(k, l, r, lcols, rcols) ==
    [reg |-> k[1], year |-> k[2],
     vals |-> [c \in lcols \cup rcols |->
                  IF c \in lcols THEN (IF l = <<>> THEN <<>> ELSE l[1].vals[c])
                  ELSE (IF r = <<>> THEN <<>> ELSE r[1].vals[c])],
     prov |-> <<>>]

\* the rows merge produces for one key: every left row with every right row
RECURSIVE Product(_, _, _, _, _)
Product(k, ls, rs, lcols, rcols) ==
    IF Len(ls) = 0 THEN <<>>
    ELSE [i \in 1..Len(rs) |-> Joined(k, <<Head(ls)>>, <<rs[i]>>, lcols, rcols)]
         \o Product(k, Tail(ls), rs, lcols, rcols)

RECURSIVE MergeKeys(_, _, _, _, _)
MergeKeys(ks, L, R, lcols, rcols) ==
    IF Len(ks) = 0 THEN <<>>
    ELSE LET k  == Head(ks)
             ls == WithKey(L, k)
             rs == WithKey(R, k)
             here == IF Len(rs) = 0
                     THEN [i \in 1..Len(ls) |-> Joined(k, <<ls[i]>>, <<>>, lcols, rcols)]
                     ELSE IF Len(ls) = 0
                     THEN [i \in 1..Len(rs) |-> Joined(k, <<>>, <<rs[i]>>, lcols, rcols)]
                     ELSE Product(k, ls, rs, lcols, rcols)
         IN here \o MergeKeys(Tail(ks), L, R, lcols, rcols)

\* a plausible slip: how="outer" left out, which is an inner join
Mut_OuterMerge(left, right) ==
    [cols |-> left.cols \o right.cols,
     rows |-> MergeKeys(SortKeys(KeysOf(left.rows) \cap KeysOf(right.rows)),
                        left.rows, right.rows,
                        {left.cols[i] : i \in 1..Len(left.cols)},
                        {right.cols[i] : i \in 1..Len(right.cols)})]

\* panel.merge(df, on=["reg", "year"], how="outer"): the union of the keys,
\* sorted, each key with the rows of both sides
OuterMerge(left, right) ==
    [cols |-> left.cols \o right.cols,
     rows |-> MergeKeys(SortKeys(KeysOf(left.rows) \cup KeysOf(right.rows)),
                        left.rows, right.rows,
                        {left.cols[i] : i \in 1..Len(left.cols)},
                        {right.cols[i] : i \in 1..Len(right.cols)})]

\* the names reg_map gives a region, in the order of tree_reg; the name of a
\* node without one is null
RECURSIVE NamesOf(_, _)
NamesOf(regs, reg) ==
    IF Len(regs) = 0 THEN <<>>
    ELSE IF Head(regs).id = reg THEN <<Head(regs).name>> \o NamesOf(Tail(regs), reg)
    ELSE NamesOf(Tail(regs), reg)

\* panel.merge(reg_map, on="reg", how="left"): every row of the panel, in
\* order, once per name of its region, or once with a null name
RECURSIVE LeftMergeNames(_, _)
LeftMergeNames(rows, regs) ==
    IF Len(rows) = 0 THEN <<>>
    ELSE LET r  == Head(rows)
             ns == NamesOf(regs, r.reg)
             here == IF Len(ns) = 0 THEN <<r>>
                     ELSE [i \in 1..Len(ns) |-> [r EXCEPT !.prov = ns[i]]]
         IN here \o LeftMergeNames(Tail(rows), regs)

\* one pass of the download loop: the frame of an indicator is merged into
\* the panel built so far
MergeInto(pan, rows, name) ==
    LET df == [cols |-> <<name>>, rows |-> Renamed(rows, name)]
    IN IF pan = <<>> THEN <<df>> ELSE <<OuterMerge(pan[1], df)>>

PanelIdle ==
    /\ ppc = "idle" /\ porder = <<>> /\ pset = FALSE /\ pframes = <<>>
    /\ pregs = <<>> /\ pidx = 0 /\ panel = <<>>

PanelInit ==
    /\ ppc = "start" /\ porder \in Orders /\ pset \in BOOLEAN /\ pframes = <<>>
    /\ pregs \in RegTrees /\ pidx = 0 /\ panel = <<>>

\* "if any(v is None for v in zb_list.values())": with the codes not filled
\* in (the file as it stands) main() prints STOP and returns
CheckZbList ==
    /\ ppc = "start"
    /\ ppc' = IF pset THEN "fetch" ELSE "stop"
    /\ UNCHANGED <<porder, pset, pframes, pregs, pidx, panel, probeVars, normVars, queryVars>>

\* one pass of "for name, zb in zb_list.items()": query_data, rename, drop,
\* merge; an exception of query_data ends the run
DownloadIndicator ==
    /\ ppc = "fetch" /\ pidx < Len(porder)
    /\ \E resp \in PanelResponses :
        LET df == query_data(resp) IN
        /\ IF df.ok
           THEN /\ pframes' = Append(pframes, df.rows)
                /\ panel' = MergeInto(panel, df.rows, porder[pidx + 1])
                /\ pidx' = pidx + 1
                /\ ppc' = ppc
           ELSE /\ pframes' = pframes /\ panel' = panel /\ pidx' = pidx /\ ppc' = "crash"
    /\ UNCHANGED <<porder, pset, pregs, probeVars, normVars, queryVars>>

\* after the loop: reg_map selects the columns id and name of tree_reg, which
\* raises KeyError when there is no name column; the names are joined in and
\* panel.to_csv writes the panel or raises; no error is caught
JoinNamesAndSave ==
    /\ ppc = "fetch" /\ pidx = Len(porder)
    /\ IF ~RegHasNames(pregs)
       THEN panel' = panel /\ files' = files /\ ppc' = "keyerror"
       ELSE /\ panel' = <<[cols |-> panel[1].cols \o <<"prov">>,
                           rows |-> LeftMergeNames(panel[1].rows, pregs)]>>
            /\ \E w \in WriteOutcomes :
                IF w = "written"
                THEN /\ files' = WriteAll(files, {[name |-> <<"panel_province_year">>,
                                                   rows |-> panel'[1]]})
                     /\ ppc' = "saved"
                ELSE files' = files /\ ppc' = "ioerror"
    /\ UNCHANGED <<porder, pset, pframes, pregs, pidx, normVars, queryVars,
                   script, pc, ci, di, tree_zb, tree_reg, zb_raw, chosen, firstViable,
                   sent, bootFailed, pairFailed>>

PanelNext ==
    \/ CheckZbList
    \/ DownloadIndicator
    \/ JoinNamesAndSave

-----------------------------------------------------------------------------
(* The specifications.                                                     *)

Init == ProbeInit /\ NormIdle /\ QueryIdle /\ PanelIdle
Next == ProbeNext
Spec == Init /\ [][Next]_vars

InitNormalize == ProbeIdle /\ NormInit /\ QueryIdle /\ PanelIdle
NextNormalize == NormNext
SpecNormalize == InitNormalize /\ [][NextNormalize]_vars

InitQuery == ProbeIdle /\ NormIdle /\ QueryInit /\ PanelIdle
NextQuery == QueryNext
SpecQuery == InitQuery /\ [][NextQuery]_vars

InitPanel == ProbeIdle /\ NormIdle /\ QueryIdle /\ PanelInit
NextPanel == PanelNext
SpecPanel == InitPanel /\ [][NextPanel]_vars

-----------------------------------------------------------------------------
(* Properties of the probing loop (checked under Spec).                    *)

\* the candidate pairs of the running script, as index pairs
Pairs == {<<c, d>> : c \in 1..Len(cn_candidates(script)),
                     d \in 1..Len(db_candidates(script))}

\* p comes before q in the nested order: cn list outer, db list inner
Before(p, q) == p[1] < q[1] \/ (p[1] = q[1] /\ p[2] < q[2])

\* the pair was given up: its bootstrap failed, or the pair itself was
TriedAndFailed(p) == p[1] \in bootFailed \/ p \in pairFailed

AllFailed == \A p \in Pairs : TriedAndFailed(p)

\* the index pair of the reported combination
ChosenPair ==
    CHOOSE p \in Pairs : /\ cn_candidates(script)[p[1]] = chosen[1]
                         /\ db_candidates(script)[p[2]] = chosen[2]

\* rows is the non-empty tree the server returned for (cn, db, wd)
IsTreeOf(rows, cn, db, wd) ==
    /\ Len(rows) > 0
    /\ \A i \in 1..Len(rows) : <<rows[i][1], rows[i][2], rows[i][3]>> = <<cn, db, wd>>

\* the pairs are looked at in the nested order: whatever was given up or
\* found viable is not after the current position, and every pair before the
\* current position was given up
InNestedOrder ==
    /\ \A q \in pairFailed : ~Before(<<ci, di>>, q)
    /\ \A c \in bootFailed : c <= ci
    /\ firstViable # <<>> => ~Before(<<ci, di>>, firstViable)
    /\ \A q \in Pairs : Before(q, <<ci, di>>) => TriedAndFailed(q)

\* the first viable pair had its bootstrap succeed and is where the run
\* stopped: it is not given up and it is the current pair
StopsAtFirstViable ==
    firstViable # <<>> => ~TriedAndFailed(firstViable) /\ firstViable = <<ci, di>>

\* the combination reported and held in memory is the first viable pair
ReportsTheViablePair ==
    chosen # <<>> =>
        /\ ChosenPair = firstViable
        /\ IsTreeOf(tree_zb, chosen[1], chosen[2], "zb")
        /\ IsTreeOf(tree_reg, chosen[1], chosen[2], "reg")

\* once a pair has its two trees, no request is issued and the loops are left
NoRequestAfterSuccess ==
    firstViable # <<>> =>
        sent' = "none" /\ ci' = ci /\ di' = di /\ firstViable' = firstViable

\* C1 as stated: the pairs are tried in the nested order and the run stops at
\* the first viable one (bootstrap succeeded, both trees fetched non-empty):
\* the reported pair is the earliest viable pair, and once a pair has
\* succeeded no further bootstrap GET or getTree POST is issued.
C1_FirstViablePairWins ==
    /\ [](InNestedOrder /\ StopsAtFirstViable /\ ReportsTheViablePair)
    /\ [][NoRequestAfterSuccess]_vars

\* C1, supporting lemma: the statement holds in every run of the old script,
\* whose to_csv calls come after the loops.
C1_HoldsInOldScript ==
    /\ [](script = "old" => InNestedOrder /\ StopsAtFirstViable /\ ReportsTheViablePair)
    /\ [][script = "old" => NoRequestAfterSuccess]_vars

\* C1, supporting lemma: the new script too looks at the pairs in the nested
\* order; what fails there is the stop at the first viable pair.
C1_NestedOrderInNewScript == script = "new" => InNestedOrder

\* C2 as stated: a failure only abandons the current candidate, so the run
\* ends in an error only when every candidate pair was tried and given up,
\* and then with the "all combinations failed" error.
C2_FailureOnlySkipsCandidate ==
    /\ pc \in {"fatal", "crash"} => AllFailed
    /\ AllFailed => pc = "fatal"

\* f is tree_<db>_zb.csv or tree_<db>_reg.csv of the pair p and holds the
\* non-empty tree the server returned for p
SavedFor(f, p) ==
    /\ f.name[1] = "tree"
    /\ f.name[2] = db_candidates(script)[p[2]]
    /\ f.name[3] \in {"zb", "reg"}
    /\ IsTreeOf(f.rows, cn_candidates(script)[p[1]], f.name[2], f.name[3])

\* the names of the files in the output directory
FileNames == {f.name : f \in files}

\* C10 as stated: no file is written before a combination has succeeded;
\* every file the run has written is a tree file of one combination that
\* was not given up (the one reported, once it is), named with
\* its db and holding the tree returned for it; a run that exhausts all
\* candidates leaves no file, and a run that ends well leaves both files.
C10_OnlyChosenTreesSaved ==
    /\ files # {} =>
        /\ firstViable # <<>>
        /\ \E p \in Pairs :
               /\ ~TriedAndFailed(p)
               /\ chosen # <<>> => p = ChosenPair
               /\ \A f \in files : SavedFor(f, p)
    /\ pc = "fatal" => files = {}
    /\ pc = "done" =>
        FileNames = {<<"tree", chosen[2], "zb">>, <<"tree", chosen[2], "reg">>}

\* C10, supporting lemma: the statement holds in every run of the old script.
C10_HoldsInOldScript == script = "old" => C10_OnlyChosenTreesSaved

-----------------------------------------------------------------------------
(* Properties of the normalizers (checked under SpecNormalize).            *)

\* the call has been made
Called(r) == r # Pending

\* v is the value the mapping nj stores under key k
StoredUnder(v, k) == \E i \in 1..Len(nj.keys) : nj.keys[i] = k /\ nj.vals[i] = v

\* nj is a mapping with none of returndata, data, result, datas
NoRecognizedKey ==
    /\ nj.type = "dict"
    /\ \A i \in 1..Len(nj.keys) : nj.keys[i] \notin {"returndata", "data", "result", "datas"}

\* the Python name of the top-level type of a value that is neither a
\* sequence nor a mapping
ScalarTypeName ==
    IF nj.type = "str" THEN "<class 'str'>"
    ELSE IF nj.type = "num" THEN "<class 'int'>"
    ELSE IF nj.type = "float" THEN "<class 'float'>"
    ELSE IF nj.type = "bool" THEN "<class 'bool'>"
    ELSE "<class 'NoneType'>"

\* C3: both tree normalizers return a sequence input unchanged, and for a
\* mapping with 'returndata' exactly the value stored under 'returndata',
\* whatever it is and whatever other keys the mapping has.
C3_SequenceOrCanonicalKey ==
    \A r \in {nres.tree, nres.ext} :
        Called(r) =>
            /\ nj.type = "list" => r.ok /\ r.val = nj
            /\ (nj.type = "dict" /\ \E i \in 1..Len(nj.keys) : nj.keys[i] = "returndata")
                  => r.ok /\ StoredUnder(r.val, "returndata")

\* C3 witness: a mapping that lists 'data' before 'returndata', with
\* different values, went through both tree normalizers
C3_Witness ==
    /\ Called(nres.tree) /\ Called(nres.ext)
    /\ nj.type = "dict" /\ Len(nj.keys) = 2
    /\ nj.keys[1] = "data" /\ nj.keys[2] = "returndata"
    /\ nj.vals[1] # nj.vals[2]
    /\ nres.tree.val = nj.vals[2]

\* C4: for a mapping with none of the recognized keys both tree normalizers
\* raise, and the message lists exactly the keys of the mapping in their
\* order (the old one as a list, the new one joined by commas); for a value
\* that is neither a sequence nor a mapping they raise with the value's type.
C4_UnknownShapeRaisesWithKeys ==
    /\ (Called(nres.tree) /\ NoRecognizedKey) =>
          ~nres.tree.ok /\ nres.tree.detail = nj.keys
    /\ (Called(nres.ext) /\ NoRecognizedKey) =>
          /\ ~nres.ext.ok
          /\ Len(nres.ext.detail) = (IF Len(nj.keys) = 0 THEN 0 ELSE 2 * Len(nj.keys) - 1)
          /\ \A i \in 1..Len(nj.keys) : nres.ext.detail[2 * i - 1] = nj.keys[i]
          /\ \A i \in 1..(Len(nj.keys) - 1) : nres.ext.detail[2 * i] = ","
    /\ \A r \in {nres.tree, nres.ext} :
          (Called(r) /\ nj.type \notin {"list", "dict"}) =>
              ~r.ok /\ r.err = "Unexpected JSON type: " /\ r.detail = <<ScalarTypeName>>

\* C4 witness: a mapping whose keys are 'returncode' and 'msg' made both
\* tree normalizers raise
C4_Witness ==
    /\ Called(nres.tree) /\ Called(nres.ext)
    /\ nj.type = "dict" /\ nj.keys = <<"returncode", "msg">>
    /\ ~nres.tree.ok /\ ~nres.ext.ok

\* the value of the first key of ks (in the order of ks) that nj contains
FirstPresent(ks, v) ==
    \E i \in 1..Len(ks) :
        /\ StoredUnder(v, ks[i])
        /\ \A h \in 1..(i - 1) : \A m \in 1..Len(nj.keys) : nj.keys[m] # ks[h]

LacksReturndata ==
    nj.type = "dict" /\ \A i \in 1..Len(nj.keys) : nj.keys[i] # "returndata"

\* C5 as stated: without 'returndata' but with a fallback key, each tree
\* normalizer returns the value of the first fallback key present, whatever
\* its type (the new script's fallback list being 'data' alone).
C5_FallbackAlwaysReturned ==
    /\ (Called(nres.tree) /\ LacksReturndata
          /\ \E m \in 1..Len(nj.keys) : nj.keys[m] \in {"data", "result", "datas"})
        => nres.tree.ok /\ FirstPresent(<<"data", "result", "datas">>, nres.tree.val)
    /\ (Called(nres.ext) /\ LacksReturndata
          /\ \E m \in 1..Len(nj.keys) : nj.keys[m] = "data")
        => nres.ext.ok /\ StoredUnder(nres.ext.val, "data")

\* C5 amended: normalize_tree_json returns the value of the first present
\* key of data, result, datas whatever its type; extract_tree returns the
\* value of 'data' only when that value is a list and raises the keys error
\* for every other mapping without 'returndata'.
C5_FallbackByVariant ==
    /\ (Called(nres.tree) /\ LacksReturndata
          /\ \E m \in 1..Len(nj.keys) : nj.keys[m] \in {"data", "result", "datas"})
        => nres.tree.ok /\ FirstPresent(<<"data", "result", "datas">>, nres.tree.val)
    /\ (Called(nres.ext) /\ LacksReturndata) =>
          IF \E m \in 1..Len(nj.keys) : nj.keys[m] = "data" /\ nj.vals[m].type = "list"
          THEN nres.ext.ok /\ StoredUnder(nres.ext.val, "data")
          ELSE ~nres.ext.ok /\ nres.ext.err = "Dict JSON without returndata. Keys="

\* C5 witness: 'data' holds a string and 'result' a list; the old normalizer
\* returned the string, the new one raised
C5_Witness ==
    /\ Called(nres.tree) /\ Called(nres.ext)
    /\ nj.type = "dict" /\ nj.keys = <<"result", "data">>
    /\ nj.vals[2].type = "str" /\ nj.vals[1].type = "list"
    /\ nres.tree.ok /\ nres.tree.val = nj.vals[2]
    /\ ~nres.ext.ok

\* C6 as stated: normalize_query_json returns the same value as
\* normalize_tree_json, or fails in the same cases.
C6_QuerySameAsTree ==
    (Called(nres.tree) /\ Called(nres.qry)) =>
        /\ nres.qry.ok = nres.tree.ok
        /\ nres.qry.ok => nres.qry.val = nres.tree.val

\* C6 amended: normalize_query_json returns the value under 'returndata'
\* (the value normalize_tree_json returns too) when its input is a mapping
\* with 'returndata', and raises for every other input, sequences and
\* mappings with only fallback keys included.
C6_QueryOnlyCanonicalKey ==
    Called(nres.qry) =>
        IF nj.type = "dict" /\ \E i \in 1..Len(nj.keys) : nj.keys[i] = "returndata"
        THEN /\ nres.qry.ok /\ StoredUnder(nres.qry.val, "returndata")
             /\ Called(nres.tree) => nres.tree = nres.qry
        ELSE /\ ~nres.qry.ok
             /\ nres.qry.err = "Unexpected QueryData JSON structure: "

\* C6 witness: a sequence that the tree normalizer returned and the query
\* normalizer refused
C6_Witness ==
    /\ nj.type = "list" /\ Len(nj.items) > 0
    /\ Called(nres.tree) /\ nres.tree.ok
    /\ Called(nres.qry) /\ ~nres.qry.ok

-----------------------------------------------------------------------------
(* Properties of query_data (checked under SpecQuery).                     *)

\* the response is the usual envelope around a list of data nodes
IsEnvelope ==
    /\ qj.type = "dict" /\ qj.keys = <<"returncode", "returndata">>
    /\ qj.vals[2].type = "dict" /\ qj.vals[2].keys = <<"datanodes", "wdnodes">>
    /\ qj.vals[2].vals[1].type = "list"

\* the data nodes of the response
SentNodes == qj.vals[2].vals[1].items

\* what the wds strings of the model decode to, read off the strings
\* themselves: <<>> where the region or the year is missing, else
\* <<region, year>>
DecodedKey(node) ==
    IF node.wds = <<>> THEN <<>>
    ELSE CASE node.wds[1] = W_full    -> <<<<"1", "1", "0", "0", "0", "0">>, 2019>>
           [] node.wds[1] = W_full2   -> <<<<"1", "2", "0", "0", "0", "0">>, 2020>>
           [] node.wds[1] = W_nozb    -> <<<<"1", "1", "0", "0", "0", "0">>, 2019>>
           [] node.wds[1] = W_swapped -> <<<<"1", "3">>, 2021>>
           [] node.wds[1] = W_retry   -> <<<<"1", "3">>, 2020>>
           [] OTHER                   -> <<>>

Decodable(node) == DecodedKey(node) # <<>>

\* the node carries the non-numeric string "abc"
Numeric(node) ==
    ~(node.data # <<>> /\ node.data[1].data # <<>> /\ node.data[1].data[1] = VStr(S_abc))

\* the source value of a numeric node: <<>> when it is absent, None or "",
\* else the number it denotes in hundredths
SourceValue(node) ==
    IF node.data = <<>> \/ node.data[1].data = <<>> THEN <<>>
    ELSE LET val == node.data[1].data[1] IN
         CASE val = VNull          -> <<>>
           [] val = VStr(<<>>)     -> <<>>
           [] val = VStr(S_zero)   -> <<0>>
           [] val = VNum(0)        -> <<0>>
           [] val = VStr(S_123_45) -> <<12345>>
           [] val = VNum(12345)    -> <<12345>>
           [] val = VStr(S_neg)    -> <<0 - 150>>

\* C7 as stated: for every list of data nodes (with numeric or missing
\* values) query_data returns a table with exactly one row, in input order,
\* for each node whose wds yields a region and a year, and no row for the
\* others.
C7_OneRowPerDecodableNode ==
    (qres # QPending /\ IsEnvelope /\ \A i \in 1..Len(SentNodes) : Numeric(SentNodes[i])) =>
        LET kept == SelectSeq(SentNodes, Decodable) IN
        /\ qres.ok
        /\ Len(qres.rows) = Len(kept)
        /\ \A i \in 1..Len(kept) :
              <<qres.rows[i].reg, qres.rows[i].year>> = DecodedKey(kept[i])

\* C7 on the lists that hold at least one node, where it does hold
C7_NonEmptyLists ==
    (qres # QPending /\ IsEnvelope /\ Len(SentNodes) > 0
       /\ \A i \in 1..Len(SentNodes) : Numeric(SentNodes[i])) =>
        LET kept == SelectSeq(SentNodes, Decodable) IN
        /\ qres.ok
        /\ Len(qres.rows) = Len(kept)
        /\ \A i \in 1..Len(kept) :
              /\ <<qres.rows[i].reg, qres.rows[i].year>> = DecodedKey(kept[i])
              /\ kept[i].wds[1] = W_full => qres.rows[i].zb = <<<<"A", "0", "1", "0", "1">>>>

\* C8: in the table query_data returns, the row of a node whose value is
\* absent, None or "" has a null value, and the row of a node with a value
\* (zero included) carries that number: null exactly for missing values.
C8_NullExactlyForMissingValue ==
    (qres.ok /\ IsEnvelope) =>
        LET kept == SelectSeq(SentNodes, Decodable) IN
        /\ Len(qres.rows) = Len(kept)
        /\ \A i \in 1..Len(kept) : qres.rows[i].value = SourceValue(kept[i])

\* C8 witness: a returned table whose first row has a null value and whose
\* second row carries the number zero
C8_Witness ==
    /\ qres.ok /\ IsEnvelope /\ Len(qres.rows) = 2
    /\ qres.rows[1].value = <<>>
    /\ qres.rows[2].value = <<0>>
    /\ SentNodes[2].data[1].data[1] = VNum(0)

-----------------------------------------------------------------------------
(* Properties of the panel assembly (checked under SpecPanel).             *)

\* the frame query_data returned for indicator n in this run
TableOf(n) == pframes[CHOOSE i \in 1..Len(porder) : porder[i] = n]

\* the values the frame t has for key k
ValuesAt(t, k) == {t[i].value : i \in {h \in 1..Len(t) : KeyOf(t[h]) = k}}

\* the panel the same frames give when zb_list names the indicators in the
\* order of the source
RECURSIVE AssembleFrom(_, _, _)
AssembleFrom(pan, i, tabs) ==
    IF i > NumInd THEN LeftMergeNames(pan[1].rows, pregs)
    ELSE AssembleFrom(MergeInto(pan, tabs[zb_list_names[i]], zb_list_names[i]), i + 1, tabs)

\* how often a row occurs in a frame
Occurrences(r, rows) == Cardinality({i \in 1..Len(rows) : rows[i] = r})

SameContent(a, b) ==
    /\ Len(a) = Len(b)
    /\ \A r \in {a[i] : i \in 1..Len(a)} : Occurrences(r, a) = Occurrences(r, b)

\* C9: once every indicator is merged and the panel is saved, its keys are
\* the union of the keys of the per-indicator frames, every indicator column
\* holds a value of that indicator's frame for the key, or null when the
\* frame has no such key, every value of every frame is in the panel, and
\* the rows are the same as for the order of the source (columns aside).
C9_OuterJoinOnRegYear ==
    ppc = "saved" =>
        LET rows == panel[1].rows
            tabs == [n \in Indicators |-> TableOf(n)]
        IN
        /\ KeysOf(rows) = UNION {KeysOf(tabs[n]) : n \in Indicators}
        /\ \A i \in 1..Len(rows) : \A n \in Indicators :
              IF ValuesAt(tabs[n], KeyOf(rows[i])) = {}
              THEN rows[i].vals[n] = <<>>
              ELSE rows[i].vals[n] \in ValuesAt(tabs[n], KeyOf(rows[i]))
        /\ \A n \in Indicators : \A h \in 1..Len(tabs[n]) :
              \E i \in 1..Len(rows) :
                  /\ KeyOf(rows[i]) = KeyOf(tabs[n][h])
                  /\ rows[i].vals[n] = tabs[n][h].value
        /\ {panel[1].cols[i] : i \in 1..Len(panel[1].cols)} = Indicators \cup {"prov"}
        /\ SameContent(rows, AssembleFrom(<<>>, 1, tabs))

\* C9 witness: a saved panel, assembled in another order than the source's,
\* with regions 11, 12 and 13 for 2020 and a null where the second
\* indicator's frame has no region 12
C9_Witness ==
    /\ ppc = "saved"
    /\ porder[1] # zb_list_names[1]
    /\ {<<R11, 2020>>, <<R12, 2020>>, <<R13, 2020>>} \subseteq KeysOf(panel[1].rows)
    /\ \E i \in 1..Len(panel[1].rows) :
          /\ KeyOf(panel[1].rows[i]) = <<R12, 2020>>
          /\ panel[1].rows[i].vals[zb_list_names[1]] = <<0>>
          /\ panel[1].rows[i].vals[zb_list_names[2]] = <<>>
          /\ ValuesAt(TableOf(zb_list_names[2]), <<R12, 2020>>) = {}
=============================================================================
